---- MODULE Spec2Model ----
(***************************************************************************)
(* A model of the trajectory algebra (trajectory_functions.py) and of the  *)
(* optimisation driver (my_min.py).                                        *)
(*                                                                         *)
(* Numbers are exact: a complex number is a Gaussian rational              *)
(* [re, im, den] in lowest terms (den > 0), so a division by 2*(M-1) or by *)
(* the transform length is a real division and an equality is an equality  *)
(* of values.  Floating-point rounding is not modelled.                    *)
(***************************************************************************)
EXTENDS Integers, Sequences, FiniteSets, TLC

\* ------------------------------------------------------------------ bounds
\* Largest state dimension d and largest number of stored modes M of an input
\* trajectory.
MaxDim == 2
MaxModes == 4

\* ------------------------------------------------- exact complex arithmetic
Abs(x) == IF x < 0 THEN -x ELSE x

RECURSIVE Gcd(_, _)
Gcd(a, b) == IF b = 0 THEN a ELSE Gcd(b, a % b)

\* The Gaussian rational (re + i*im)/den in lowest terms, den > 0.
Cx(re, im, den) ==
    LET s == IF den < 0 THEN -1 ELSE 1
        g == Gcd(Gcd(Abs(re), Abs(im)), Abs(den))
    IN  [re |-> (s * re) \div g, im |-> (s * im) \div g, den |-> Abs(den) \div g]

CZero == Cx(0, 0, 1)
\* What a division by zero leaves in an array: no number (nan or inf).
CNonFinite == [re |-> 0, im |-> 0, den |-> 0]
IsFinite(a) == a.den # 0
COne == Cx(1, 0, 1)
CI == Cx(0, 1, 1)

\* Sums and products; two Gaussian integers need no reduction.
CAdd(a, b) ==
    IF a.den = 1 /\ b.den = 1
    THEN [re |-> a.re + b.re, im |-> a.im + b.im, den |-> 1]
    ELSE Cx(a.re * b.den + b.re * a.den, a.im * b.den + b.im * a.den, a.den * b.den)
CMul(a, b) ==
    IF a.den = 1 /\ b.den = 1
    THEN [re |-> a.re * b.re - a.im * b.im, im |-> a.re * b.im + a.im * b.re, den |-> 1]
    ELSE Cx(a.re * b.re - a.im * b.im, a.re * b.im + a.im * b.re, a.den * b.den)
CNeg(a) == [re |-> -a.re, im |-> -a.im, den |-> a.den]
CConj(a) == [re |-> a.re, im |-> -a.im, den |-> a.den]
CReal(a) == Cx(a.re, 0, a.den)
CInt(n) == [re |-> n, im |-> 0, den |-> 1]
CDivInt(a, n) == Cx(a.re, a.im, a.den * n)

\* Sum of f[k] for k in lo..hi, accumulated in increasing k as a loop does.
RECURSIVE CSum(_, _, _)
CSum(f, lo, hi) == IF hi < lo THEN CZero ELSE CAdd(CSum(f, lo, hi - 1), f[hi])

\* ------------------------------------------------------------ trajectories
\* A Trajectory holds modes, a d x M array of complex coefficients:
\* modes[j][k] for state dimension j in 1..d and mode k in 0..M-1.
Shape0(t) == Cardinality(DOMAIN t)
Shape1(t) == Cardinality(DOMAIN t[1])

Positions(d, M) == (1..d) \X (0..(M - 1))

\* The trajectories of shape (d, M) with at most nnz non-zero coefficients,
\* each drawn from vals.
SparseTrajs(d, M, vals, nnz) ==
    { [j \in 1..d |-> [k \in 0..(M - 1) |->
          IF <<j, k>> \in S THEN f[<<j, k>>] ELSE CZero]] :
      <<S, f>> \in UNION { {S} \X [S -> vals] :
                           S \in {P \in SUBSET Positions(d, M) : Cardinality(P) <= nnz} } }

\* The input families: the coefficient values, the trajectories with one
\* non-zero coefficient (every other one is a sum of these) and with two.
CoeffVals == {COne, CI, Cx(-1, 0, 1), Cx(1, -1, 1)}
UnitVals == {CI, Cx(1, -1, 1)}
SelfVals == {COne, CI, Cx(1, -1, 1)}
UnitTrajs(d, M) == SparseTrajs(d, M, UnitVals, 1)
TwoToneTrajs(d, M) == SparseTrajs(d, M, CoeffVals, 2)
SelfTrajs(d, M) == SparseTrajs(d, M, SelfVals, 2)
AllOnes(d, M) == [j \in 1..d |-> [k \in 0..(M - 1) |-> COne]]
Shapes == (1..MaxDim) \X (1..MaxModes)

Col(t, k) == [j \in 1..Shape0(t) |-> t[j][k]]
ConjVec(v) == [j \in DOMAIN v |-> CConj(v[j])]
ZeroVec(d) == [j \in 1..d |-> CZero]
\* np.dot of two 1-D arrays of equal length: no conjugation.
Dot(v, w) == CSum([j \in DOMAIN v |-> CMul(v[j], w[j])], 1, Len(v))

VARIABLES
    pc,      \* position of the calling script
    traj1,   \* modes of the first input trajectory
    traj2,   \* modes of the second input trajectory
    out,     \* what the calls made so far left behind, by call label
    kwargs,  \* the keyword arguments of the call under way
    count,   \* jacob_init: calls of the closure and conversions made so far
    traces,  \* my_min: the traces object the callback appends to
    iters    \* my_min: the vectors the solver has passed to the callback

vars == <<pc, traj1, traj2, out, kwargs, count, traces, iters>>

\* What a call leaves behind: the exception it raised ("none" when it
\* returned), the value it returned, and its array arguments after the call.
Returned(v, a1, a2) == [raised |-> "none", ret |-> v, arg1 |-> a1, arg2 |-> a2]
Raised(e, a1, a2) == [raised |-> e, ret |-> <<>>, arg1 |-> a1, arg2 |-> a2]

\* --------------------------------------------------------------- traj_grad
\* A variant of traj_grad that works in the input's own array
\* (new_modes = traj.modes).
traj_grad_in_place(traj) ==
    [raised |-> "none",
     ret |-> [j \in 1..Shape0(traj) |-> [k \in 0..(Shape1(traj) - 1) |->
                 CMul(CMul(CI, CInt(k)), traj[j][k])]],
     arg1 |-> [j \in 1..Shape0(traj) |-> [k \in 0..(Shape1(traj) - 1) |->
                 CMul(CMul(CI, CInt(k)), traj[j][k])]],
     arg2 |-> <<>>]

traj_grad(traj) ==
    LET M == Shape1(traj)
        scaled == [j \in 1..Shape0(traj) |-> [k \in 0..(M - 1) |->
                      CMul(CMul(CI, CInt(k)), traj[j][k])]]
        new_modes == IF M % 2 = 0
                     THEN [j \in 1..Shape0(traj) |->
                              [scaled[j] EXCEPT ![M \div 2] = CZero]]
                     ELSE scaled
    IN  Returned(new_modes, traj, <<>>)

\* --------------------------------------------------------- traj_inner_prod
\* Lines 73-76: the coefficient vector of traj1 at mode m, by conjugate
\* reflection for m < 0.
\* A variant of Vec1 that reflects without conjugating.
Vec1_no_conj(t1, m) == IF m < 0 THEN Col(t1, -m) ELSE Col(t1, m)

Vec1(t1, m) == IF m < 0 THEN ConjVec(Col(t1, -m)) ELSE Col(t1, m)

\* Lines 77-83: the index of traj2 read for the pair (m, n - m), or -1 when
\* n - m lies above the stored modes of traj1 and zeros are used instead.
Vec2Index(t1, n, m) ==
    IF n - m < Shape1(t1) THEN (IF n - m < 0 THEN m - n ELSE n - m) ELSE -1

\* A variant of Vec2 that reflects without conjugating.
Vec2_no_conj(t1, t2, n, m) ==
    IF n - m < Shape1(t1)
    THEN IF n - m < 0 THEN Col(t2, m - n) ELSE Col(t2, n - m)
    ELSE ZeroVec(Shape0(t1))

Vec2(t1, t2, n, m) ==
    IF n - m < Shape1(t1)
    THEN IF n - m < 0 THEN ConjVec(Col(t2, m - n)) ELSE Col(t2, n - m)
    ELSE ZeroVec(Shape0(t1))

\* Lines 71-84: the nested loop from iteration (n, m) on; prod is the row
\* prod_modes[0, :] so far.  Indexing traj2 past its last mode raises
\* IndexError, np.dot of vectors of different lengths raises ValueError.
RECURSIVE InnerLoop(_, _, _, _, _)
InnerLoop(t1, t2, n, m, prod) ==
    LET M == Shape1(t1) IN
    IF n >= M THEN [raised |-> "none", prod |-> prod]
    ELSE IF m >= M THEN InnerLoop(t1, t2, n + 1, 1 - M, prod)
    ELSE IF Vec2Index(t1, n, m) >= Shape1(t2)
         THEN [raised |-> "IndexError", prod |-> prod]
    ELSE IF Vec2Index(t1, n, m) >= 0 /\ Shape0(t1) # Shape0(t2)
         THEN [raised |-> "ValueError", prod |-> prod]
    ELSE InnerLoop(t1, t2, n, m + 1,
                   [prod EXCEPT ![n] = CAdd(@, Dot(Vec1(t1, m), Vec2(t1, t2, n, m)))])

\* Line 87: prod_modes/(2*(M - 1)); for M = 1 the division is by zero, which
\* numpy answers with a non-finite entry and a warning, not an exception.
\* A variant of Normalise that divides by twice the mode count.
Normalise_by_2M(prod, M) == [n \in DOMAIN prod |-> CDivInt(prod[n], 2 * M)]

Normalise(prod, M) ==
    [n \in DOMAIN prod |->
        IF M = 1 THEN CNonFinite ELSE CDivInt(prod[n], 2 * (M - 1))]

traj_inner_prod(t1, t2) ==
    LET M == Shape1(t1)
        loop == InnerLoop(t1, t2, 0, 1 - M, [n \in 0..(M - 1) |-> CZero])
    IN  IF loop.raised # "none" THEN Raised(loop.raised, t1, t2)
        ELSE Returned([j \in {1} |-> Normalise(loop.prod, M)], t1, t2)

\* ----------------------------------------------------------------- swap_tf
\* The transforms are modelled for the lengths N = 2*(M-1) whose roots of
\* unity are Gaussian integers: N = 2 (M = 2) and N = 4 (M = 3).
ExactModes(M) == M <= 3

IPow(q) == CASE q = 0 -> COne [] q = 1 -> CI [] q = 2 -> Cx(-1, 0, 1) [] q = 3 -> Cx(0, -1, 1)
\* exp(2*pi*i*e/N), for N dividing 4*e.
W(N, e) == IPow(((4 * e) \div N) % 4)

Traj(modes) == [kind |-> "Trajectory", data |-> modes]
NdArray(a) == [kind |-> "ndarray", data |-> a]

\* np.fft.irfft along axis 1 with the default length N = 2*(M-1): the real
\* signal whose half-spectrum is the row; the imaginary parts of mode 0 and of
\* the last mode do not enter.
irfft(modes) ==
    LET M == Shape1(modes)
        N == 2 * (M - 1)
    IN  [j \in 1..Shape0(modes) |-> [t \in 0..(N - 1) |->
            CDivInt(
                CAdd(CAdd(CReal(modes[j][0]),
                          CSum([k \in 1..(M - 2) |->
                                  CReal(CMul(CInt(2), CMul(modes[j][k], W(N, k * t))))],
                               1, M - 2)),
                     CReal(CMul(modes[j][M - 1], W(N, (M - 1) * t)))),
                N)]]

\* np.fft.rfft along axis 1 of an array of N real samples: modes 0..N/2.
rfft(curve) ==
    LET N == Shape1(curve)
    IN  [j \in 1..Shape0(curve) |-> [k \in 0..(N \div 2) |->
            CSum([t \in 0..(N - 1) |-> CMul(curve[j][t], W(N, -(k * t)))], 0, N - 1)]]

\* swap_tf: an object with modes goes to the time domain, an array to the
\* frequency domain.  irfft of a single mode asks for 0 samples: ValueError.
\* A variant of swap_tf that takes an array to the full spectrum (np.fft.fft).
swap_tf_fft(object) ==
    IF object.kind = "Trajectory"
    THEN IF Shape1(object.data) = 1
         THEN [raised |-> "ValueError", ret |-> <<>>]
         ELSE [raised |-> "none", ret |-> NdArray(irfft(object.data))]
    ELSE IF object.kind = "ndarray"
    THEN [raised |-> "none",
          ret |-> NdArray([j \in 1..Shape0(object.data) |->
                     [k \in 0..(Shape1(object.data) - 1) |->
                        CSum([t \in 0..(Shape1(object.data) - 1) |->
                                CMul(object.data[j][t], W(Shape1(object.data), -(k * t)))],
                             0, Shape1(object.data) - 1)]])]
    ELSE [raised |-> "TypeError", ret |-> <<>>]

swap_tf(object) ==
    IF object.kind = "Trajectory"
    THEN IF Shape1(object.data) = 1
         THEN [raised |-> "ValueError", ret |-> <<>>]
         ELSE [raised |-> "none", ret |-> NdArray(irfft(object.data))]
    ELSE IF object.kind = "ndarray"
    THEN [raised |-> "none", ret |-> NdArray(rfft(object.data))]
    ELSE [raised |-> "TypeError", ret |-> <<>>]

\* ----------------------------------------------------------- traj_response
\* The responses tried: each maps a real state vector to one of the same size.
Funcs == {"neg", "square"}
ApplyFunc(f, v) ==
    IF f = "neg" THEN [j \in DOMAIN v |-> CNeg(v[j])]
    ELSE [j \in DOMAIN v |-> CMul(v[j], v[j])]

traj_response(traj, func) ==
    LET conv == swap_tf(Traj(traj))
        curve == conv.ret.data
        resp == [j \in 1..Shape0(curve) |-> [i \in 0..(Shape1(curve) - 1) |->
                    ApplyFunc(func, Col(curve, i))[j]]]
    IN  IF conv.raised # "none" THEN Raised(conv.raised, traj, <<>>)
        ELSE Returned(Traj(swap_tf(NdArray(resp)).ret.data), traj, <<>>)

\* -------------------------------------------------------------- jacob_init
\* sys.jacobian of the System: here the Jacobian of the field
\* F_r(x) = r * (x_1^2 + ... + x_d^2) / 2, which is not symmetric.
SysJacobian(state) ==
    [r \in DOMAIN state |-> [c \in DOMAIN state |-> CMul(CInt(r), state[c])]]

Transpose(A) == [r \in DOMAIN A |-> [c \in DOMAIN A |-> A[c][r]]]

\* An index i is the number num/den; i % 1 != 0 when den does not divide num.
IsFractional(i) == i.num % i.den # 0
IntOf(i) == i.num \div i.den

\* A variant of IndexCheck that tests the range before the type.
IndexCheck_range_first(i, N) ==
    IF i.num >= N * i.den THEN "ValueError"
    ELSE IF IsFractional(i) THEN "TypeError"
    ELSE "none"

\* Lines 175-178: the tests of the index against the N samples of the curve.
IndexCheck(i, N) ==
    IF IsFractional(i) THEN "TypeError"
    ELSE IF i.num >= N * i.den THEN "ValueError"
    ELSE "none"

\* The closure jacobian(i) of jacob_init(traj, sys, if_transp): what it raises
\* or returns, how often it converted traj and called sys.jacobian.  A
\* negative integral index counts from the end of the curve, as numpy's
\* indexing does, and one below -N raises IndexError.
jacobian(traj, if_transp, i) ==
    LET conv == swap_tf(Traj(traj))
        curve == conv.ret.data
        N == Shape1(curve)
        k == IF IntOf(i) < 0 THEN N + IntOf(i) ELSE IntOf(i)
        J == SysJacobian(Col(curve, k))
        fail(e) == [i |-> i, raised |-> e, ret |-> <<>>, conv |-> 1, sys |-> 0]
    IN  IF conv.raised # "none" THEN fail(conv.raised)
        ELSE IF IndexCheck(i, N) # "none" THEN fail(IndexCheck(i, N))
        ELSE IF IntOf(i) < -N THEN fail("IndexError")
        ELSE [i |-> i, raised |-> "none",
              ret |-> IF if_transp THEN Transpose(J) ELSE J,
              conv |-> 1, sys |-> 1]

\* ------------------------------------------------------------------ my_min
Fields == {"traj", "freq", "lr", "gr", "gr_grad"}

\* vec2traj for one state dimension: dim real parts, dim imaginary parts,
\* then the frequency.
vec2traj(x, dim) ==
    [traj |-> [j \in {1} |-> [k \in 0..(dim - 1) |-> Cx(x[k + 1], x[dim + k + 1], 1)]],
     freq |-> x[2 * dim + 1]]

\* The residual module is not part of the sources: its results are kept as
\* the applications that produce them.
local_residual(traj, freq) == <<"local_residual", traj, freq>>
res_func(x, dim) == <<"global_residual", vec2traj(x, dim).traj, vec2traj(x, dim).freq>>
jac_func(x, dim) ==
    <<"traj2vec", <<"gr_traj_grad", vec2traj(x, dim).traj, vec2traj(x, dim).freq>>,
                  <<"gr_freq_grad", vec2traj(x, dim).traj, vec2traj(x, dim).freq>>>>

\* Lines 61-62: the traces object used when none is supplied.
NewTraces == [f \in Fields |-> <<>>]

\* A variant of callback that keeps only the latest gradient
\* (traces['gr_grad'] = [jac_func(x)]).
callback_latest_grad(tr, x, dim) ==
    [tr EXCEPT !["traj"] = Append(@, vec2traj(x, dim).traj),
               !["freq"] = Append(@, vec2traj(x, dim).freq),
               !["lr"] = Append(@, local_residual(vec2traj(x, dim).traj,
                                                  vec2traj(x, dim).freq)),
               !["gr"] = Append(@, res_func(x, dim)),
               !["gr_grad"] = <<jac_func(x, dim)>>]

\* Lines 65-72: the callback's effect on the traces object.
callback(tr, x, dim) ==
    LET cur == vec2traj(x, dim) IN
    [tr EXCEPT !["traj"] = Append(@, cur.traj),
               !["freq"] = Append(@, cur.freq),
               !["lr"] = Append(@, local_residual(cur.traj, cur.freq)),
               !["gr"] = Append(@, res_func(x, dim)),
               !["gr_grad"] = Append(@, jac_func(x, dim))]

\* traj2vec for one state dimension, the inverse of vec2traj.
traj2vec(traj, freq) ==
    [n \in 1..(2 * Shape1(traj) + 1) |->
        IF n <= Shape1(traj) THEN traj[1][n - 1].re
        ELSE IF n <= 2 * Shape1(traj) THEN traj[1][n - Shape1(traj) - 1].im
        ELSE freq]

\* ============================================================ the scripts
NoKwargs == [none |-> TRUE]
Idle == /\ kwargs = NoKwargs /\ count = 0 /\ traces = <<>> /\ iters = <<>>
IdleUnchanged == UNCHANGED <<kwargs, count, traces, iters>>

\* out with the call's record added under its label.
Do(label, call) == out' = (label :> call) @@ out

\* ---- the algebra on one pair of inputs, called in any order, any number of
\* ---- times; out keeps what the last call left behind.
InitAlgebra ==
    /\ pc = "algebra"
    /\ \E s \in Shapes :
          /\ traj1 \in TwoToneTrajs(s[1], s[2])
          /\ traj2 = AllOnes(s[1], s[2])
    /\ out = <<>>
    /\ Idle

Grad ==
    /\ pc = "algebra"
    /\ \E call \in {traj_grad(traj1)} :
          /\ out' = ("grad" :> call)
          /\ traj1' = call.arg1
    /\ UNCHANGED <<pc, traj2>>
    /\ IdleUnchanged

InnerProd ==
    /\ pc = "algebra"
    /\ \E call \in {traj_inner_prod(traj1, traj2)} :
          /\ out' = ("inner" :> call)
          /\ traj1' = call.arg1
          /\ traj2' = call.arg2
    /\ UNCHANGED pc
    /\ IdleUnchanged

Response ==
    /\ pc = "algebra"
    /\ ExactModes(Shape1(traj1))
    /\ \E func \in Funcs :
          \E call \in {traj_response(traj1, func)} :
             /\ out' = ("response" :> call)
             /\ traj1' = call.arg1
    /\ UNCHANGED <<pc, traj2>>
    /\ IdleUnchanged

\* swap_tf(swap_tf(traj)): to the time domain and back.
RoundTrip ==
    /\ pc = "algebra"
    /\ ExactModes(Shape1(traj1))
    /\ \E there \in {swap_tf(Traj(traj1))} :
          out' = ("roundtrip" :>
                    IF there.raised # "none" THEN Raised(there.raised, traj1, <<>>)
                    ELSE Returned(swap_tf(there.ret).ret.data, traj1, <<>>))
    /\ UNCHANGED <<pc, traj1, traj2>>
    /\ IdleUnchanged

Next == Grad \/ InnerProd \/ Response \/ RoundTrip
Spec == InitAlgebra /\ [][Next]_vars

\* ---- traj_inner_prod on a pair, in both orders.
InitInner ==
    /\ pc = "inner"
    /\ \/ \E s \in Shapes :
             /\ traj1 \in UnitTrajs(s[1], s[2])
             /\ traj2 \in UnitTrajs(s[1], s[2])
       \/ \E s \in Shapes :
             /\ traj1 \in SelfTrajs(s[1], s[2])
             /\ traj2 = traj1
       \/ \E s1 \in Shapes, s2 \in Shapes :
             /\ s1 # s2
             /\ traj1 = AllOnes(s1[1], s1[2])
             /\ traj2 = AllOnes(s2[1], s2[2])
    /\ out = <<>>
    /\ Idle

InnerProd12 ==
    /\ pc = "inner" /\ "p12" \notin DOMAIN out
    /\ \E call \in {traj_inner_prod(traj1, traj2)} :
          /\ Do("p12", call)
          /\ traj1' = call.arg1
          /\ traj2' = call.arg2
    /\ UNCHANGED pc
    /\ IdleUnchanged

InnerProd21 ==
    /\ pc = "inner" /\ "p21" \notin DOMAIN out
    /\ \E call \in {traj_inner_prod(traj2, traj1)} :
          /\ Do("p21", call)
          /\ traj2' = call.arg1
          /\ traj1' = call.arg2
    /\ UNCHANGED pc
    /\ IdleUnchanged

NextInner == InnerProd12 \/ InnerProd21
SpecInner == InitInner /\ [][NextInner]_vars

\* ---- one closure of jacob_init, called up to MaxCalls times with indices
\* ---- num/den, |num| <= MaxIndex.
MaxCalls == 3
MaxIndex == 5
Indices == [num : (-MaxIndex)..MaxIndex, den : {1, 2}]

InitJacobian ==
    /\ pc = "jacobian"
    /\ \E s \in Shapes : ExactModes(s[2]) /\ traj1 \in UnitTrajs(s[1], s[2])
    /\ traj2 = <<>>
    /\ kwargs \in [if_transp : BOOLEAN]
    /\ count = [calls |-> 0, conv |-> 0]
    /\ out = <<>>
    /\ traces = <<>> /\ iters = <<>>

\* A variant of CallJacobian in which the curve is converted on the first
\* call and kept for the later ones.
CallJacobianCached ==
    /\ pc = "jacobian"
    /\ count.calls < MaxCalls
    /\ \E i \in Indices :
          \E call \in {jacobian(traj1, kwargs.if_transp, i)} :
             /\ out' = ("jacobian" :> call)
             /\ count' = [calls |-> count.calls + 1,
                          conv |-> IF count.calls = 0 THEN call.conv ELSE count.conv]
    /\ UNCHANGED <<pc, traj1, traj2, kwargs, traces, iters>>

CallJacobian ==
    /\ pc = "jacobian"
    /\ count.calls < MaxCalls
    /\ \E i \in Indices :
          \E call \in {jacobian(traj1, kwargs.if_transp, i)} :
             /\ out' = ("jacobian" :> call)
             /\ count' = [calls |-> count.calls + 1, conv |-> count.conv + call.conv]
    /\ UNCHANGED <<pc, traj1, traj2, kwargs, traces, iters>>

NextJacobian == CallJacobian
SpecJacobian == InitJacobian /\ [][NextJacobian]_vars

\* ---- my_min: the solver iterates up to MaxIter times, calling the callback
\* ---- once an iteration; a supplied traces object holds up to MaxSink
\* ---- snapshots of an earlier run.
MaxIter == 2
MaxSink == 1
Vectors == [1..3 -> 0..1]

SeqsUpTo(S, n) == UNION { [1..m -> S] : m \in 0..n }

InitMin ==
    /\ pc = "min_call"
    /\ traj1 = AllOnes(1, 1)
    /\ traj2 = <<>>
    /\ \/ kwargs = [has_traces |-> FALSE, traces |-> NewTraces]
       \/ \E xs \in SeqsUpTo(Vectors, MaxSink) :
             kwargs = [has_traces |-> TRUE,
                       traces |-> [f \in Fields |->
                          [n \in 1..Len(xs) |-> callback(NewTraces, xs[n], 1)[f][1]]]]
    /\ count = 0
    /\ out = <<>>
    /\ traces = <<>> /\ iters = <<>>

\* Lines 50-88: up to the call of minimize.
MinSetup ==
    /\ pc = "min_call"
    /\ pc' = "min_solving"
    /\ traces' = IF kwargs.has_traces THEN kwargs.traces ELSE NewTraces
    /\ UNCHANGED <<traj1, traj2, out, kwargs, count, iters>>

\* One iteration of minimize: the solver calls callback(x) with its iterate.
SolverIteration ==
    /\ pc = "min_solving"
    /\ Len(iters) < MaxIter
    /\ \E x \in Vectors :
          /\ traces' = callback(traces, x, Shape1(traj1))
          /\ iters' = Append(iters, x)
    /\ UNCHANGED <<pc, traj1, traj2, out, kwargs, count>>

\* Lines 91-97: minimize returns sol; my_min unpacks sol.x and returns.
MinReturn ==
    /\ pc = "min_solving"
    /\ pc' = "min_returned"
    /\ LET x == IF iters = <<>> THEN traj2vec(traj1, 1) ELSE iters[Len(iters)]
           op == vec2traj(x, Shape1(traj1))
       IN  out' = ("my_min" :> [op_traj |-> op.traj, op_freq |-> op.freq,
                                traces |-> traces,
                                sol |-> [x |-> x, nit |-> Len(iters)]])
    /\ UNCHANGED <<traj1, traj2, kwargs, count, traces, iters>>

NextMin == MinSetup \/ SolverIteration \/ MinReturn
SpecMin == InitMin /\ [][NextMin]_vars

\* ============================================================ properties
SameShape(a, b) == Shape0(a) = Shape0(b) /\ Shape1(a) = Shape1(b)
Called(label) == label \in DOMAIN out
Modes(t) == 0..(Shape1(t) - 1)
Dims(t) == 1..Shape0(t)

\* C1: traj_grad returns a trajectory of the input's shape whose coefficient
\* (j, k) is i*k times the input's, except that for an even number of modes M
\* the Nyquist mode k = M-1 is zero in every state dimension.
C1_GradScalesModesZeroesNyquist ==
    Called("grad") =>
        /\ out["grad"].raised = "none"
        /\ SameShape(out["grad"].ret, traj1)
        /\ \A j \in Dims(traj1), k \in Modes(traj1) :
              out["grad"].ret[j][k] =
                 IF Shape1(traj1) % 2 = 0 /\ k = Shape1(traj1) - 1
                 THEN CZero
                 ELSE CMul(Cx(0, k, 1), traj1[j][k])

\* The two-sided spectrum of a stored half-spectrum: ext[-k] = conj(coeff[k]).
ExtCoeff(t, j, k) == IF k < 0 THEN CConj(t[j][-k]) ELSE t[j][k]

\* Mode n of the convolution of the two-sided spectra, over the pairs
\* (m, n-m) with both indices within -(M-1)..(M-1), divided by 2*(M-1).
ConvolutionMode(t1, t2, n) ==
    LET top == Shape1(t1) - 1
        term(m) == IF -top <= n - m /\ n - m <= top
                   THEN CSum([j \in Dims(t1) |->
                                 CMul(ExtCoeff(t1, j, m), ExtCoeff(t2, j, n - m))],
                             1, Shape0(t1))
                   ELSE CZero
    IN  CDivInt(CSum([m \in (-top)..top |-> term(m)], -top, top), 2 * top)

\* C2: for two trajectories of the same shape with M >= 2 modes,
\* traj_inner_prod returns one row of M modes, and its mode n is the
\* convolution sum over every pair (m, n-m) inside the stored spectrum, each
\* counted once, divided by 2*(M-1).
C2_InnerProdIsConvolution ==
    (Called("p12") /\ SameShape(traj1, traj2) /\ Shape1(traj1) >= 2) =>
        /\ out["p12"].raised = "none"
        /\ DOMAIN out["p12"].ret = {1}
        /\ DOMAIN out["p12"].ret[1] = Modes(traj1)
        /\ \A n \in Modes(traj1) :
              out["p12"].ret[1][n] = ConvolutionMode(traj1, traj2, n)

C2_Witness ==
    /\ Called("p12") /\ SameShape(traj1, traj2)
    /\ Shape0(traj1) = 2 /\ Shape1(traj1) >= 3
    /\ traj1 # traj2
    /\ out["p12"].raised = "none"
    /\ out["p12"].ret[1][1] # CZero
    /\ out["p12"].ret[1][Shape1(traj1) - 1] # CZero

BothCalled ==
    /\ Called("p12") /\ Called("p21")
    /\ SameShape(traj1, traj2) /\ Shape1(traj1) >= 2

\* C3 as stated: every mode of traj_inner_prod(t1, t2) is the complex
\* conjugate of the same mode of traj_inner_prod(t2, t1) (stated here for
\* M >= 2, where every mode is a number).
C3_InnerProdConjugateSymmetric ==
    BothCalled =>
        /\ out["p12"].raised = "none" /\ out["p21"].raised = "none"
        /\ \A n \in Modes(traj1) :
              out["p12"].ret[1][n] = CConj(out["p21"].ret[1][n])

\* C3 amended: for two trajectories of the same shape with M >= 2 modes,
\* every mode of traj_inner_prod(t1, t2) equals the same mode of
\* traj_inner_prod(t2, t1), without conjugation.
C3_InnerProdSymmetric ==
    BothCalled =>
        /\ out["p12"].raised = "none" /\ out["p21"].raised = "none"
        /\ \A n \in Modes(traj1) : out["p12"].ret[1][n] = out["p21"].ret[1][n]

C3_Witness ==
    /\ BothCalled
    /\ traj1 # traj2
    /\ out["p12"].raised = "none"
    /\ \E n \in Modes(traj1) : out["p12"].ret[1][n].im # 0

SelfCalled == Called("p12") /\ traj1 = traj2 /\ Shape1(traj1) >= 2

\* C4 as stated: every coefficient of traj_inner_prod(t, t) has a zero
\* imaginary part and a real part >= 0 (stated here for M >= 2).
C4_SelfProductRealNonNegative ==
    SelfCalled =>
        /\ out["p12"].raised = "none"
        /\ \A n \in Modes(traj1) :
              out["p12"].ret[1][n].im = 0 /\ out["p12"].ret[1][n].re >= 0

ZeroModeReal(t) == \A j \in Dims(t) : t[j][0].im = 0

\* C4 amended: for every trajectory t with M >= 2 modes whose zero-mode
\* coefficients are real, the zero mode of traj_inner_prod(t, t) has a zero
\* imaginary part and a real part >= 0.
C4_SelfProductZeroModeRealNonNegative ==
    (SelfCalled /\ ZeroModeReal(traj1)) =>
        /\ out["p12"].raised = "none"
        /\ out["p12"].ret[1][0].im = 0
        /\ out["p12"].ret[1][0].re >= 0

C4_Witness ==
    /\ SelfCalled /\ ZeroModeReal(traj1)
    /\ \E j \in Dims(traj1), k \in Modes(traj1) : traj1[j][k].im # 0
    /\ traj1[1][0] # CZero
    /\ out["p12"].raised = "none"
    /\ out["p12"].ret[1][0].re > 0

RealEnds(t) ==
    \A j \in Dims(t) : t[j][0].im = 0 /\ t[j][Shape1(t) - 1].im = 0

\* C5 as stated: for any trajectory t with M modes, swap_tf(swap_tf(t)) has M
\* modes and every coefficient equals the corresponding coefficient of t
\* (stated here for M >= 2: a single mode cannot be converted at all).
C5_RoundTripIsIdentity ==
    (Called("roundtrip") /\ Shape1(traj1) >= 2) =>
        /\ out["roundtrip"].raised = "none"
        /\ out["roundtrip"].ret = traj1

\* C5 amended: for any trajectory t with M >= 2 modes whose zero mode and
\* highest mode (k = M-1) are real in every state dimension,
\* swap_tf(swap_tf(t)) has M modes and every coefficient equals the
\* corresponding coefficient of t.
C5_RoundTripOfRealEnds ==
    (Called("roundtrip") /\ Shape1(traj1) >= 2 /\ RealEnds(traj1)) =>
        /\ out["roundtrip"].raised = "none"
        /\ SameShape(out["roundtrip"].ret, traj1)
        /\ out["roundtrip"].ret = traj1

C5_Witness ==
    /\ Called("roundtrip") /\ Shape1(traj1) = 3 /\ RealEnds(traj1)
    /\ traj1[1][0] # CZero
    /\ traj1[Shape0(traj1)][1].im # 0
    /\ out["roundtrip"].raised = "none"

Samples(t) == 2 * (Shape1(t) - 1)
AtOrPast(i, n) == i.num >= n * i.den
ExpectedJacobian(t, transp, k) ==
    IF transp THEN Transpose(SysJacobian(Col(irfft(t), k)))
    ELSE SysJacobian(Col(irfft(t), k))

\* C6 as stated: the closure fails with ValueError for every index
\* i >= the number of samples, with TypeError for every fractional i, in
\* both cases without calling sys.jacobian; for an integral index in range
\* it returns sys.jacobian at sample i, transposed exactly when asked
\* (stated here for M >= 2, where the curve has samples).
C6_JacobianIndexChecks ==
    (Called("jacobian") /\ Shape1(traj1) >= 2) =>
        \E c \in {out["jacobian"]} :
            /\ AtOrPast(c.i, Samples(traj1)) => c.raised = "ValueError"
            /\ IsFractional(c.i) => c.raised = "TypeError"
            /\ c.raised \in {"ValueError", "TypeError"} => c.sys = 0
            /\ (~IsFractional(c.i) /\ c.i.num >= 0 /\ ~AtOrPast(c.i, Samples(traj1))) =>
                  /\ c.raised = "none"
                  /\ c.sys = 1
                  /\ c.ret = ExpectedJacobian(traj1, kwargs.if_transp, IntOf(c.i))

\* C6 amended: for a trajectory with M >= 2 modes, the closure fails with
\* TypeError for every fractional index i (also one >= the number of samples),
\* with ValueError for every integral i >= the number of samples, in both
\* cases without calling sys.jacobian; for an integral index in range it
\* returns sys.jacobian at sample i, transposed exactly when asked.
C6_JacobianIndexChecksIntegral ==
    (Called("jacobian") /\ Shape1(traj1) >= 2) =>
        \E c \in {out["jacobian"]} :
            /\ (~IsFractional(c.i) /\ AtOrPast(c.i, Samples(traj1))) =>
                  c.raised = "ValueError"
            /\ IsFractional(c.i) => c.raised = "TypeError"
            /\ c.raised \in {"ValueError", "TypeError"} => c.sys = 0
            /\ (~IsFractional(c.i) /\ c.i.num >= 0 /\ ~AtOrPast(c.i, Samples(traj1))) =>
                  /\ c.raised = "none"
                  /\ c.sys = 1
                  /\ c.ret = ExpectedJacobian(traj1, kwargs.if_transp, IntOf(c.i))

C6_Witness ==
    /\ Called("jacobian") /\ Shape1(traj1) >= 2
    /\ IsFractional(out["jacobian"].i)
    /\ AtOrPast(out["jacobian"].i, Samples(traj1))
    /\ out["jacobian"].raised = "TypeError"

Snapshot(x, dim) ==
    [traj |-> vec2traj(x, dim).traj,
     freq |-> vec2traj(x, dim).freq,
     lr |-> local_residual(vec2traj(x, dim).traj, vec2traj(x, dim).freq),
     gr |-> res_func(x, dim),
     gr_grad |-> jac_func(x, dim)]

Supplied == IF kwargs.has_traces THEN kwargs.traces ELSE [f \in Fields |-> <<>>]

\* C7: each callback invocation appends exactly one entry, computed from the
\* vector it was passed, to each of the five trace fields and changes no
\* earlier entry: every field is the supplied field (empty when no traces
\* were supplied) followed by one entry per iteration so far, in order; and
\* what my_min returns is that object, each field as long as the supplied
\* traces plus the solver's iteration count.
C7_TraceIsAppendOnly ==
    /\ pc \in {"min_solving", "min_returned"} =>
          \A f \in Fields :
             /\ Len(traces[f]) = Len(Supplied[f]) + Len(iters)
             /\ \A n \in 1..Len(Supplied[f]) : traces[f][n] = Supplied[f][n]
             /\ \A n \in 1..Len(iters) :
                   traces[f][Len(Supplied[f]) + n] = Snapshot(iters[n], Shape1(traj1))[f]
    /\ pc = "min_returned" =>
          /\ out["my_min"].traces = traces
          /\ \A f \in Fields :
                Len(out["my_min"].traces[f]) =
                   Len(Supplied["traj"]) + out["my_min"].sol.nit

C7_Witness ==
    /\ pc = "min_returned"
    /\ kwargs.has_traces /\ Len(kwargs.traces["traj"]) >= 1
    /\ out["my_min"].sol.nit >= 2
    /\ iters[1] # iters[2]

\* C8: traj_inner_prod of two trajectories that disagree on mode count or on
\* state dimension raises and returns nothing, whichever operand is larger
\* (stated here for a first operand with M >= 2 modes).
C8_ShapeMismatchRaises ==
    (Called("p12") /\ ~SameShape(traj1, traj2) /\ Shape1(traj1) >= 2) =>
        out["p12"].raised # "none"

\* C9: no call of traj_grad, traj_inner_prod or traj_response changes a
\* coefficient of an input trajectory, in any sequence of calls.
C9_InputsUnchanged == [][traj1' = traj1 /\ traj2' = traj2]_vars

C9_Witness ==
    /\ Called("response")
    /\ out["response"].raised = "none"
    /\ out["response"].ret.data # traj1
    /\ \E j \in Dims(traj1), k \in Modes(traj1) : traj1[j][k] # CZero
====
